---- MODULE Spec2Model ----
(***************************************************************************)
(* Model of the tablature decoder of tabtosound (src/dep/tab_parser.py):   *)
(* class Tab with its methods read and print.                              *)
(*                                                                         *)
(* A Python str is modelled as a sequence of one-character strings, a      *)
(* Python list as a sequence.  Python indices are 0-based, the sequences   *)
(* here are 1-based: Python's tab[i] is tab[i + 1] below.                  *)
(* List objects that can be shared between the decoder and its caller      *)
(* (self.tab, the list read returns) live in a heap, addressed by their    *)
(* position in it.                                                         *)
(* The fields symbols, notes_sharps, notes_flat, divisions and             *)
(* timesignature are set by __init__ and read by no method; they are not   *)
(* part of the state.                                                      *)
(***************************************************************************)
EXTENDS Integers, Sequences, FiniteSets

VARIABLES
    strings,    \* self.strings, the same for every decoder instance
    tab,        \* tab[d]: the heap address of the list self.tab of d
    tab_roots,  \* tab_roots[d]: the contents of the list self.tab_roots of d
    heap,       \* heap[a]: the contents of the list object at address a
    pc,         \* position of the call in progress, or how the last one ended
    self,       \* the decoder of the call in progress / last call (0: none)
    file,       \* the lines f.readlines() gave the call in progress / last call
    lines,      \* the local list `tab` of read
    ret,        \* address of the list the last read returned (0: none)
    out,        \* the lines the last print wrote to stdout
    returned,   \* the lists read has handed to its callers so far
    entry,      \* the decoder's cached fields as they were when read was called
    nreads      \* number of read calls so far

vars == <<strings, tab, tab_roots, heap, pc, self, file, lines, ret, out,
          returned, entry, nreads>>

----------------------------------------------------------------------------
(* Bounds *)

MaxStrings == 2
MaxLines == 3
MaxReads == 3

----------------------------------------------------------------------------
(* Characters and input lines *)

NL == "\n"
Bar == "|"

Decoders == {1, 2}

\* Lines as readlines returns them: never empty, "\n" only as last character.
BlankLine == <<NL>>
HeaderLine == <<"[", "A", "]", NL>>
LineE == <<"E", "|", "1", "|", "2", "|", NL>>
LineB == <<"B", "|", "-", "3", NL>>
LineG == <<"G", NL>>

\* The last line of a file that does not end with a line terminator.
LastE == <<"E", "|", "1", "2">>
LastD == <<"D">>
LastHeader == <<"[", "A", "]">>

TermLines == {BlankLine, HeaderLine, LineE, LineB, LineG}
LastLines == {LastE, LastD, LastHeader}

\* The example input of the specification, section 8.
ExampleFile ==
    << <<"[", "I", "n", "t", "r", "o", "]", NL>>,
       <<"E", "|", "0", "-", "-", "2", "-", "-", "|", NL>>,
       <<"B", "|", "-", "-", "3", "-", "-", "-", "-", "|", NL>>,
       <<NL>>,
       <<"E", "|", "1", "-", "-", "-", "-", "-", "-", "|", NL>>,
       <<"B", "|", "-", "-", "-", "4", "-", "-", "-", "|", NL>> >>

TermFiles(n) == [1..n -> TermLines]

\* Every file of at most MaxLines lines, the last one terminated or not.
Files ==
    {ExampleFile}
    \cup UNION {TermFiles(n) : n \in 0..MaxLines}
    \cup UNION {{Append(p, l) : p \in TermFiles(n - 1), l \in LastLines} :
                n \in 1..MaxLines}

\* The files a session of several reads draws from.
SessionFiles ==
    { <<>>,
      <<LineE>>,
      <<LineB, LineG>>,
      <<LineG, LineE, LineB>> }

----------------------------------------------------------------------------
(* Python's list and str operations, as read uses them *)

\* list.remove(x): removes the first element equal to x.
RemoveFirst(s, x) ==
    LET k == CHOOSE i \in 1..Len(s) :
                 s[i] = x /\ \A j \in 1..(i - 1) : s[j] # x
    IN  SubSeq(s, 1, k - 1) \o SubSeq(s, k + 1, Len(s))

\* for line in tab: ... tab.remove(line).  The list iterator holds an index
\* `it` into the list that is being changed: it stops when it >= len(tab).
RECURSIVE FilterLoop(_, _)
FilterLoop(t, it) ==
    IF it >= Len(t) THEN t
    ELSE LET line == t[it + 1]
         IN  IF line = <<NL>> THEN FilterLoop(RemoveFirst(t, line), it + 1)
             ELSE IF line[1] = "[" THEN FilterLoop(RemoveFirst(t, line), it + 1)
             ELSE FilterLoop(t, it + 1)

\* self.tab_roots.append(tab[i][0]) for i in range(n)
RootsOf(t, n) == [i \in 1..n |-> t[i][1]]

\* s[2:]: the line terminator is kept.
SliceKeepTerminator(s) == IF Len(s) < 3 THEN <<>> ELSE SubSeq(s, 3, Len(s))

\* s[2:-1]: the characters at Python indices 2 .. len(s)-2.
Slice(s) == IF Len(s) - 1 < 3 THEN <<>> ELSE SubSeq(s, 3, Len(s) - 1)

NotBar(c) == c # Bar

\* s.replace("|", "", 1)
RECURSIVE RemoveFirstPipe(_)
RemoveFirstPipe(s) ==
    IF s = <<>> THEN <<>>
    ELSE IF Head(s) = Bar THEN Tail(s)
    ELSE <<Head(s)>> \o RemoveFirstPipe(Tail(s))

\* s.replace("|", "")
RemovePipes(s) == SelectSeq(s, NotBar)

\* "".join(parts)
RECURSIVE Join(_)
Join(parts) == IF parts = <<>> THEN <<>> ELSE Head(parts) \o Join(Tail(parts))

\* range(start, stop, step + 1)
RECURSIVE PyRangeWideStep(_, _, _)
PyRangeWideStep(start, stop, step) ==
    IF start >= stop THEN <<>>
    ELSE <<start>> \o PyRangeWideStep(start + step + 1, stop, step)

\* range(start, stop, step), step > 0: the Python indices it yields, in order.
RECURSIVE PyRange(_, _, _)
PyRange(start, stop, step) ==
    IF start >= stop THEN <<>>
    ELSE <<start>> \o PyRange(start + step, stop, step)

\* "".join(tab[j] for j in range(i, len(tab), self.strings))
Group(t, i, S) ==
    LET r == PyRange(i, Len(t), S)
    IN  Join([k \in 1..Len(r) |-> t[r[k] + 1]])

\* the loop `for i in range(self.strings): ... result.append(group)`
Interleave(t, S) == [i \in 1..S |-> Group(t, i - 1, S)]

\* result = self.tab: the list object the decoder already holds.
ReuseResult(h, selfTab) == selfTab

\* result = []: a new list object, at the next free heap address.
AllocResult(h, selfTab) == Len(h) + 1

\* the heap after `groups` were appended to the list at address a
AppendAll(h, a, groups) ==
    LET base == IF a > Len(h) THEN Append(h, <<>>) ELSE h
    IN  [base EXCEPT ![a] = @ \o groups]

\* print(self.tab_roots[i] + "|" + self.tab[i]) for i in range(len(self.tab))
DisplayLines(roots, seqs) ==
    [i \in 1..Len(seqs) |-> <<roots[i]>> \o <<Bar>> \o seqs[i]]

----------------------------------------------------------------------------
(* The state machine *)

\* Tab.__init__ of each decoder: self.tab = [], self.tab_roots = [].
Init ==
    /\ strings \in 1..MaxStrings
    /\ heap = [d \in Decoders |-> <<>>]
    /\ tab = [d \in Decoders |-> d]
    /\ tab_roots = [d \in Decoders |-> <<>>]
    /\ pc = "idle"
    /\ self = 0
    /\ file = <<>>
    /\ lines = <<>>
    /\ ret = 0
    /\ out = <<>>
    /\ returned = {}
    /\ entry = [roots |-> <<>>, tab |-> <<>>]
    /\ nreads = 0

Idle == pc \in {"idle", "done", "failed", "printed"}

\* read(self, file) is entered: tab = f.readlines()
Call(d, f) ==
    /\ Idle
    /\ pc' = "read"
    /\ self' = d
    /\ file' = f
    /\ lines' = f
    /\ ret' = 0
    /\ out' = <<>>
    /\ entry' = [roots |-> tab_roots[d], tab |-> heap[tab[d]]]
    /\ nreads' = nreads + 1
    /\ UNCHANGED <<strings, tab, tab_roots, heap, returned>>

\* one read of an arbitrary file on a fresh decoder
CallOnce == \E d \in Decoders, f \in Files : nreads = 0 /\ Call(d, f)

\* a session: up to MaxReads reads on either decoder
CallSession ==
    \E d \in Decoders, f \in SessionFiles : nreads < MaxReads /\ Call(d, f)

\* "Remove empty lines"
FilterStep ==
    /\ pc = "read"
    /\ lines' = FilterLoop(lines, 0)
    /\ pc' = "filtered"
    /\ UNCHANGED <<strings, tab, tab_roots, heap, self, file, ret, out,
                   returned, entry, nreads>>

\* "Get the root notes"; tab[i] raises IndexError once i reaches len(tab),
\* after the roots before it were appended.
RootsStep ==
    /\ pc = "filtered"
    /\ IF Len(lines) >= strings
       THEN /\ tab_roots' = [tab_roots EXCEPT
                                ![self] = @ \o RootsOf(lines, strings)]
            /\ pc' = "rooted"
       ELSE /\ tab_roots' = [tab_roots EXCEPT
                                ![self] = @ \o RootsOf(lines, Len(lines))]
            /\ pc' = "failed"
    /\ UNCHANGED <<strings, tab, heap, self, file, lines, ret, out, returned,
                   entry, nreads>>

\* "Remove the root notes and \n"
TrimStep ==
    /\ pc = "rooted"
    /\ lines' = [j \in 1..Len(lines) |-> Slice(lines[j])]
    /\ pc' = "trimmed"
    /\ UNCHANGED <<strings, tab, tab_roots, heap, self, file, ret, out,
                   returned, entry, nreads>>

\* "Remove pipes"
PipesStep ==
    /\ pc = "trimmed"
    /\ lines' = [j \in 1..Len(lines) |-> RemovePipes(lines[j])]
    /\ pc' = "piped"
    /\ UNCHANGED <<strings, tab, tab_roots, heap, self, file, ret, out,
                   returned, entry, nreads>>

\* "Do that thing", self.tab = result, return self.tab
InterleaveStep ==
    /\ pc = "piped"
    /\ LET result == AllocResult(heap, tab[self])
           h == AppendAll(heap, result, Interleave(lines, strings))
       IN  /\ heap' = h
           /\ tab' = [tab EXCEPT ![self] = result]
           /\ ret' = result
           /\ returned' = returned \cup
                  {[dec |-> self, file |-> file, ref |-> result,
                    val |-> h[result]]}
    /\ pc' = "done"
    /\ UNCHANGED <<strings, tab_roots, self, file, lines, out, entry, nreads>>

\* print(self)
TabPrint(d) ==
    /\ Idle
    /\ out' = DisplayLines(tab_roots[d], heap[tab[d]])
    /\ pc' = "printed"
    /\ self' = d
    /\ UNCHANGED <<strings, tab, tab_roots, heap, file, lines, ret, returned,
                   entry, nreads>>

PrintAny == \E d \in Decoders : TabPrint(d)

Next ==
    \/ CallSession
    \/ FilterStep
    \/ RootsStep
    \/ TrimStep
    \/ PipesStep
    \/ InterleaveStep
    \/ PrintAny

Spec == Init /\ [][Next]_vars

NextOnce ==
    \/ CallOnce
    \/ FilterStep
    \/ RootsStep
    \/ TrimStep
    \/ PipesStep
    \/ InterleaveStep
    \/ PrintAny

SpecOnce == Init /\ [][NextOnce]_vars

----------------------------------------------------------------------------
(* Properties *)

\* A usable line: neither exactly a line terminator nor a "[" header.
IsTabLine(l) == l # <<NL>> /\ l[1] # "["

Usable(f) == SelectSeq(f, IsTabLine)

\* The Python indices j in 0..n-1 with j mod S = i, ascending.
ModIdx(n, S, i) ==
    LET Hit(j) == j % S = i
    IN  SelectSeq([k \in 1..n |-> k - 1], Hit)

RECURSIVE SumLen(_)
SumLen(parts) ==
    IF parts = <<>> THEN 0 ELSE Len(Head(parts)) + SumLen(Tail(parts))

\* A line without its first two characters and without its trailing line
\* terminator, every other character kept.
ContentOf(l) ==
    LET body == IF l # <<>> /\ l[Len(l)] = NL
                THEN SubSeq(l, 1, Len(l) - 1) ELSE l
    IN  IF Len(body) <= 2 THEN <<>> ELSE SubSeq(body, 3, Len(body))

\* C1: once the filtering step of read has run, the local line list is
\* exactly the input lines that are neither "\n" nor start with "[", in
\* their original order (adjacent blank or header lines included).
C1_FilterKeepsExactlyTabLines ==
    pc = "filtered" => lines = Usable(file)

\* C2: a read of an input with fewer than string_count usable lines ends in
\* the out-of-range failure and returns nothing.
C2_TooFewLinesFails ==
    (/\ pc \in {"rooted", "trimmed", "piped", "done", "failed"}
     /\ Len(Usable(file)) < strings)
    => (pc = "failed" /\ ret = 0)

\* C3: after every successful read, first or later, tab_roots and tab of the
\* decoder both have length string_count.
C3_CachedLengths ==
    pc = "done" =>
        /\ Len(tab_roots[self]) = strings
        /\ Len(heap[tab[self]]) = strings

\* C4: the sequence read returns for string i is the concatenation, in
\* ascending j, of the content of the filtered lines j with
\* j mod string_count = i; its length is the sum of their lengths; and every
\* filtered line is taken by exactly one of the ranges the code walks.
C4_InterleaveByString ==
    pc = "done" =>
        /\ Len(heap[ret]) = strings
        /\ \A i \in 0..(strings - 1) :
              LET idx == ModIdx(Len(lines), strings, i)
                  parts == [k \in 1..Len(idx) |-> lines[idx[k] + 1]]
              IN  /\ heap[ret][i + 1] = Join(parts)
                  /\ Len(heap[ret][i + 1]) = SumLen(parts)
        /\ \A j \in 0..(Len(lines) - 1) :
              Cardinality({i \in 0..(strings - 1) :
                  \E k \in 1..Len(PyRange(i, Len(lines), strings)) :
                      PyRange(i, Len(lines), strings)[k] = j}) = 1

C4_Witness ==
    /\ pc = "done"
    /\ strings = 2
    /\ Len(lines) >= 3
    /\ \A i \in 1..strings : heap[ret][i] # <<>>
    /\ \A j \in 1..Len(lines) : lines[j] # <<>>

\* C5: a print after any sequence of reads writes, as line i, the first
\* character of filtered line i of the decoder's most recent successful
\* read, then "|", then that read's sequence for string i.
C5_PrintShowsLatestRead ==
    pc = "printed" =>
        \A rec \in returned :
            rec.ref = tab[self] =>
                out = [i \in 1..strings |->
                          <<FilterLoop(rec.file, 0)[i][1]>> \o <<Bar>>
                              \o rec.val[i]]

\* C6: the trimming step turns every filtered line, terminated or not, into
\* the line without its first two characters and without its trailing line
\* terminator; no other character is dropped.
C6_TrimKeepsContent ==
    [][(pc = "rooted" /\ pc' = "trimmed") =>
          /\ Len(lines') = Len(lines)
          /\ \A j \in 1..Len(lines) : lines'[j] = ContentOf(lines[j])]_vars

ExampleSeqE ==
    <<"0", "-", "-", "2", "-", "-", "1", "-", "-", "-", "-", "-", "-">>

ExampleSeqB ==
    <<"-", "-", "3", "-", "-", "-", "-", "-", "-", "-", "4", "-", "-", "-">>

\* The second sequence as the specification's example prints it:
\* "--3------------4---".
ExampleSeqBStated ==
    <<"-", "-", "3", "-", "-", "-", "-", "-", "-", "-", "-", "-", "-", "-",
      "-", "4", "-", "-", "-">>

\* C7 (as stated): with string_count = 2 the example input yields RootNotes
\* E, B and the sequences "0--2--1------" and "--3------------4---".
C7_ExampleAsStated ==
    (pc = "done" /\ file = ExampleFile /\ strings = 2) =>
        /\ tab_roots[self] = <<"E", "B">>
        /\ heap[ret] = <<ExampleSeqE, ExampleSeqBStated>>

\* C7 (amended): with string_count = 2 the example input yields RootNotes
\* E, B and the sequences "0--2--1------" and "--3-------4---".
C7_Example ==
    (pc = "done" /\ file = ExampleFile /\ strings = 2) =>
        /\ tab_roots[self] = <<"E", "B">>
        /\ heap[ret] = <<ExampleSeqE, ExampleSeqB>>

C7_Witness == pc = "done" /\ file = ExampleFile /\ strings = 2

\* C8: no sequence a successful read returns contains "|", and removing "|"
\* from it again changes nothing.
C8_NoBarsLeft ==
    pc = "done" =>
        \A i \in 1..Len(heap[ret]) :
            /\ \A k \in 1..Len(heap[ret][i]) : heap[ret][i][k] # Bar
            /\ RemovePipes(heap[ret][i]) = heap[ret][i]

C8_Witness ==
    /\ pc = "done"
    /\ \E j \in 1..Len(file) : file[j] = LineE
    /\ \E i \in 1..Len(heap[ret]) : Len(heap[ret][i]) >= 2

\* C9: what read returns depends only on the input and string_count: any two
\* reads of the same input, on whichever decoder and after whatever earlier
\* reads, returned the same sequences; and a list that read has returned
\* still holds what it held when it was returned.
C9_ReadIsFunctionOfInput ==
    /\ \A r1 \in returned, r2 \in returned :
          r1.file = r2.file => r1.val = r2.val
    /\ \A r \in returned : heap[r.ref] = r.val

\* Two decoders returned a list for the same input, one of them after an
\* earlier successful read of another input and a failed read.
C9_Witness ==
    /\ pc = "done"
    /\ \E r0 \in returned, r1 \in returned, r2 \in returned :
          /\ r1.dec # r2.dec
          /\ r1.file = r2.file
          /\ r0.dec = r1.dec
          /\ r0.ref < r1.ref
          /\ r0.file # r1.file
          /\ r0.val # r1.val

\* C10: a read that fails for want of lines leaves the decoder's cached
\* tab_roots and tab as they were when it was called.
C10_FailedReadKeepsCache ==
    pc = "failed" =>
        /\ tab_roots[self] = entry.roots
        /\ heap[tab[self]] = entry.tab

====
